---------------------------- MODULE Spec2Model ----------------------------
(***************************************************************************)
(* A model of the NHL PP1-targets pipeline:                                *)
(*   - the Fetch Client (tenacity-wrapped _get / http_get_json),           *)
(*   - the minutes:seconds parsers (two divergent mmss_to_seconds),        *)
(*   - the Schedule Resolver (get_schedule and its tiers),                 *)
(*   - the League-Stress Ranking (get_top5_tsh),                           *)
(*   - the Target Matcher (build_targets, compute_pp1_candidates).         *)
(* Each component has its own specification over the shared variables;     *)
(* the variables of the other components stay idle.                        *)
(***************************************************************************)
EXTENDS Integers, Sequences, FiniteSets, TLC

VARIABLES
    \* Fetch Client: one decorated call in progress
    fc_fn,        \* "_get" | "http_get_json" | "none"
    fc_state,     \* "calling" | "returned" | "raised" | "idle"
    fc_log,       \* the upstream response of every attempt made so far
    fc_sleeps,    \* the back-off waits slept between attempts
    \* minutes:seconds parsing: one text handed to both parsers
    mm_in,        \* [is_none, text]: None, or the text as a sequence of characters
    mm_matcher,   \* outcome of nhl_pp1_targets.mmss_to_seconds, or Pending
    mm_resolver,  \* outcome of flashscore_schedule.mmss_to_seconds, or Pending
    \* League-Stress Ranking: one call of get_top5_tsh
    tsh_resp,     \* the team-summary response: [ok, rows]
    tsh_out,      \* outcome of get_top5_tsh, or Pending
    \* Schedule Resolver: one call of get_schedule(d, tz_name)
    gs_pc,        \* "tierA" | "tierB" | "done" | "idle"
    gs_day,       \* d, the requested day (days since 1970-01-01)
    gs_tz,        \* tz_name
    gs_feed,      \* what the JSON feed answered (Tier A), once fetched
    gs_page,      \* what the HTML listing page answered (Tier B), once fetched
    gs_official,  \* what the official schedule endpoint holds for d (Tier C)
    gs_fetched,   \* the sources fetched so far, in order
    gs_result,    \* outcome of get_schedule, or Pending
    \* Target Matcher: one call of build_targets(run_date, season, tz_name)
    bt_pc,        \* "schedule" | "top5" | "teams" | "opponents" | "done" | "idle"
    bt_day,       \* run_date
    bt_schedule,  \* schedule
    bt_tsh_top5,  \* tsh_top5
    bt_name_to_id,\* name_to_id
    bt_id_to_name,\* id_to_name
    bt_opponents, \* opponents
    bt_next,      \* the place in opponents of the next opponent to work on
    bt_rows,      \* rows
    bt_result,    \* outcome of build_targets (its rows), or Pending
    \* Candidate selection: one call of compute_pp1_candidates(team_id, season)
    pp_roster,    \* what the roster and per-player statistics requests answer
    pp_out        \* outcome of compute_pp1_candidates, or Pending

fetchVars == <<fc_fn, fc_state, fc_log, fc_sleeps>>

mmssVars == <<mm_in, mm_matcher, mm_resolver>>

tshVars == <<tsh_resp, tsh_out>>

schedVars ==
    <<gs_pc, gs_day, gs_tz, gs_feed, gs_page, gs_official, gs_fetched, gs_result>>

targetVars ==
    <<bt_pc, bt_day, bt_schedule, bt_tsh_top5, bt_name_to_id, bt_id_to_name,
      bt_opponents, bt_next, bt_rows, bt_result>>

pp1Vars == <<pp_roster, pp_out>>

vars == <<fetchVars, mmssVars, tshVars, schedVars, targetVars, pp1Vars>>

\* ------------------------------------------------------------------------
\* Generic helpers
\* ------------------------------------------------------------------------

MinOf(a, b) == IF a <= b THEN a ELSE b

MaxOf(a, b) == IF a >= b THEN a ELSE b

RECURSIVE Pow2(_)
Pow2(n) == IF n <= 0 THEN 1 ELSE 2 * Pow2(n - 1)

\* Python's seq[:n]
Take(s, n) == SubSeq(s, 1, MinOf(n, Len(s)))

\* ------------------------------------------------------------------------
\* Fetch Client
\* ------------------------------------------------------------------------

\* stop_after_attempt(3)
StopAfterAttempt == 3

\* wait_exponential(multiplier=1, min=1, max=5)
WaitMultiplier == 1

WaitMin == 1

WaitMax == 5

\* What one requests.get can meet upstream.
\*   transport_error : connection error / timeout, requests.get raises
\*   http_error      : a non-success status, raise_for_status raises
\*   ok_json         : success, body is a non-empty JSON document
\*   ok_empty_json   : success, body is an empty JSON document ({} or [])
\*   ok_empty_body   : success, body is the empty text
\*   ok_not_json     : success, body is text that is not JSON
Responses ==
    {"transport_error", "http_error", "ok_json", "ok_empty_json",
     "ok_empty_body", "ok_not_json"}

FailedResponses == {"transport_error", "http_error"}

\* tenacity's wait_exponential after attempt number n (1-based)
WaitExponential(n) ==
    MaxOf(MaxOf(0, WaitMin), MinOf(WaitMultiplier * Pow2(n - 1), WaitMax))

\* The body of _get: requests.get, raise_for_status, return r
GetBody(resp) ==
    IF resp \in FailedResponses
    THEN [raised |-> TRUE, value |-> "exception"]
    ELSE [raised |-> FALSE, value |-> resp]

\* The body of http_get_json: requests.get, raise_for_status, return r.json();
\* r.json() raises on a body that is not a JSON document.
HttpGetJsonBody(resp) ==
    IF resp \in FailedResponses \cup {"ok_empty_body", "ok_not_json"}
    THEN [raised |-> TRUE, value |-> "exception"]
    ELSE [raised |-> FALSE, value |-> resp]

\* tenacity's retry loop around one attempt of the decorated body: any
\* exception of the body is retried until stop_after_attempt is reached.
RetryAttempt(fn) ==
    /\ fc_fn = fn
    /\ fc_state = "calling"
    /\ \E resp \in Responses :
        LET r == IF fn = "_get" THEN GetBody(resp) ELSE HttpGetJsonBody(resp)
            n == Len(fc_log) + 1
        IN  /\ fc_log' = Append(fc_log, resp)
            /\ IF ~r.raised
               THEN /\ fc_state' = "returned"
                    /\ fc_sleeps' = fc_sleeps
               ELSE IF n >= StopAfterAttempt
               THEN /\ fc_state' = "raised"
                    /\ fc_sleeps' = fc_sleeps
               ELSE /\ fc_state' = "calling"
                    /\ fc_sleeps' = Append(fc_sleeps, WaitExponential(n))
    /\ UNCHANGED fc_fn
    /\ UNCHANGED <<mmssVars, tshVars, schedVars, targetVars, pp1Vars>>

GetAttempt == RetryAttempt("_get")

HttpGetJsonAttempt == RetryAttempt("http_get_json")

FetchIdle ==
    /\ fc_fn = "none"
    /\ fc_state = "idle"
    /\ fc_log = <<>>
    /\ fc_sleeps = <<>>

FetchStart ==
    /\ fc_fn \in {"_get", "http_get_json"}
    /\ fc_state = "calling"
    /\ fc_log = <<>>
    /\ fc_sleeps = <<>>

FetchNext ==
    \/ GetAttempt
    \/ HttpGetJsonAttempt

\* ------------------------------------------------------------------------
\* minutes:seconds text <-> seconds
\* ------------------------------------------------------------------------

Digits == {"0", "1", "2", "3", "4", "5", "6", "7", "8", "9"}

DigitVal(c) ==
    CASE c = "0" -> 0 [] c = "1" -> 1 [] c = "2" -> 2 [] c = "3" -> 3
      [] c = "4" -> 4 [] c = "5" -> 5 [] c = "6" -> 6 [] c = "7" -> 7
      [] c = "8" -> 8 [] c = "9" -> 9

RECURSIVE DecVal(_)
DecVal(s) ==
    IF s = <<>> THEN 0
    ELSE 10 * DecVal(SubSeq(s, 1, Len(s) - 1)) + DigitVal(s[Len(s)])

\* str.strip(): leading and trailing white space removed
RECURSIVE LStrip(_)
LStrip(s) ==
    IF s # <<>> /\ s[1] = " " THEN LStrip(Tail(s)) ELSE s

RECURSIVE RStrip(_)
RStrip(s) ==
    IF s # <<>> /\ s[Len(s)] = " " THEN RStrip(SubSeq(s, 1, Len(s) - 1)) ELSE s

Strip(s) == LStrip(RStrip(s))

\* str.split(":"): the pieces between the colons, empty pieces kept
RECURSIVE SplitColon(_)
SplitColon(s) ==
    IF \A i \in 1..Len(s) : s[i] # ":"
    THEN <<s>>
    ELSE LET i == CHOOSE k \in 1..Len(s) :
                    s[k] = ":" /\ \A j \in 1..(k - 1) : s[j] # ":"
         IN  <<SubSeq(s, 1, i - 1)>> \o SplitColon(SubSeq(s, i + 1, Len(s)))

\* int(text): white space stripped, an optional sign, then one or more digits;
\* anything else raises ValueError.
PyIntBody(s) ==
    LET t == Strip(s)
    IN  IF t # <<>> /\ t[1] \in {"-", "+"} THEN Tail(t) ELSE t

PyIntOk(s) ==
    LET b == PyIntBody(s)
    IN  b # <<>> /\ \A i \in 1..Len(b) : b[i] \in Digits

PyInt(s) ==
    LET t == Strip(s)
    IN  IF t[1] = "-" THEN 0 - DecVal(PyIntBody(s)) ELSE DecVal(PyIntBody(s))

\* The outcome of a call: a value returned, an exception raised, or no outcome yet
Returned(v) == [state |-> "returned", value |-> v]

Raised == [state |-> "raised", value |-> 0]

Pending == [state |-> "pending", value |-> 0]

\* nhl_pp1_targets.mmss_to_seconds, the parser the Target Matcher uses
mmss_to_seconds(mmss) ==
    IF mmss.is_none \/ mmss.text = <<>> \/ mmss.text = <<"0", ":", "0", "0">>
    THEN Returned(0)
    ELSE LET parts == SplitColon(mmss.text)
         IN  IF Len(parts) # 2 THEN Returned(0)
             ELSE IF ~PyIntOk(parts[1]) \/ ~PyIntOk(parts[2]) THEN Raised
             ELSE Returned(PyInt(parts[1]) * 60 + PyInt(parts[2]))

\* flashscore_schedule.mmss_to_seconds: the whole body is inside try/except
fs_mmss_to_seconds(s) ==
    IF s.is_none \/ s.text = <<>>
       \/ s.text \in {<<"0">>, <<"0", "0", ":", "0", "0">>, <<"-", "-">>}
    THEN Returned(0)
    ELSE LET parts == SplitColon(Strip(s.text))
         IN  IF Len(parts) # 2 THEN Returned(0)
             ELSE IF ~PyIntOk(parts[1]) \/ ~PyIntOk(parts[2]) THEN Returned(0)
             ELSE Returned(MaxOf(0, PyInt(parts[1]) * 60 + PyInt(parts[2])))

\* Bound on the length of the texts tried, and the characters they are made of
MaxTextLen == 4

TextAlphabet == {"0", "1", "5", ":", "-", " ", "x"}

TextsUpTo(n) == UNION {[1..k -> TextAlphabet] : k \in 0..n}

MmssInputs ==
    {[is_none |-> TRUE, text |-> <<>>]}
        \cup {[is_none |-> FALSE, text |-> t] : t \in TextsUpTo(MaxTextLen)}

MatcherParse ==
    /\ mm_matcher.state = "pending"
    /\ mm_matcher' = mmss_to_seconds(mm_in)
    /\ UNCHANGED <<mm_in, mm_resolver>>
    /\ UNCHANGED <<fetchVars, tshVars, schedVars, targetVars, pp1Vars>>

ResolverParse ==
    /\ mm_resolver.state = "pending"
    /\ mm_resolver' = fs_mmss_to_seconds(mm_in)
    /\ UNCHANGED <<mm_in, mm_matcher>>
    /\ UNCHANGED <<fetchVars, tshVars, schedVars, targetVars, pp1Vars>>

MmssIdle ==
    /\ mm_in = [is_none |-> TRUE, text |-> <<>>]
    /\ mm_matcher = Returned(0)
    /\ mm_resolver = Returned(0)

MmssStart ==
    /\ mm_in \in MmssInputs
    /\ mm_matcher = Pending
    /\ mm_resolver = Pending

MmssNext ==
    \/ MatcherParse
    \/ ResolverParse

\* ------------------------------------------------------------------------
\* League-Stress Ranking
\* ------------------------------------------------------------------------

\* out[:5]
TopN == 5

\* A key of a JSON object that may be missing: the empty set when it is
\* missing, the singleton of its value when it is there.
Absent == {}

Field(v) == {v}

ValueOf(f) == CHOOSE v \in f : TRUE

\* list.sort(key=..., reverse=True): stable, descending. The argument is the
\* list decorated with the keys, [key, item]; the result is the items.
\* InsertDesc puts x behind every element whose key is greater or equal.
RECURSIVE InsertDesc(_, _)
InsertDesc(sorted, x) ==
    IF sorted = <<>> THEN <<x>>
    ELSE IF Head(sorted).key >= x.key
    THEN <<Head(sorted)>> \o InsertDesc(Tail(sorted), x)
    ELSE <<x>> \o sorted

RECURSIVE SortDescFrom(_, _)
SortDescFrom(sorted, rest) ==
    IF rest = <<>> THEN sorted
    ELSE SortDescFrom(InsertDesc(sorted, Head(rest)), Tail(rest))

SortDesc(keyed) ==
    LET sorted == SortDescFrom(<<>>, keyed)
    IN  [i \in 1..Len(sorted) |-> sorted[i].item]

\* The record get_top5_tsh builds of one response row (the row has a teamId)
TshRecord(r) ==
    [teamId |-> ValueOf(r.teamId),
     teamFullName |-> r.teamFullName,
     timesShorthanded |->
        IF r.timesShorthanded = Absent THEN 0 ELSE ValueOf(r.timesShorthanded)]

\* get_top5_tsh: http_get_json raises when the fetch fails; int(None) raises
\* TypeError for a row without teamId; timesShorthanded defaults to 0.
get_top5_tsh(resp) ==
    IF ~resp.ok THEN Raised
    ELSE IF \E i \in 1..Len(resp.rows) : resp.rows[i].teamId = Absent THEN Raised
    ELSE LET out == [i \in 1..Len(resp.rows) |-> TshRecord(resp.rows[i])]
             keyed == [i \in 1..Len(out) |->
                          [key |-> out[i].timesShorthanded, item |-> out[i]]]
         IN  Returned(Take(SortDesc(keyed), TopN))

\* Bound on the number of team rows of a response
MaxRows == 6

TeamLabel(i) == <<"team", i>>

GetTop5Tsh ==
    /\ tsh_out.state = "pending"
    /\ tsh_out' = get_top5_tsh(tsh_resp)
    /\ UNCHANGED tsh_resp
    /\ UNCHANGED <<fetchVars, mmssVars, schedVars, targetVars, pp1Vars>>

TshIdle ==
    /\ tsh_resp = [ok |-> FALSE, rows |-> <<>>]
    /\ tsh_out = Raised

TshStart ==
    /\ \E k \in 0..MaxRows :
         \E rows \in [1..k -> [teamId : BOOLEAN, tsh : {0, 1, 2}]] :
            tsh_resp =
                [ok |-> TRUE,
                 rows |-> [i \in 1..k |->
                    [teamId |-> IF rows[i].teamId THEN Field(i) ELSE Absent,
                     teamFullName |-> TeamLabel(i),
                     timesShorthanded |->
                        IF rows[i].tsh = 0 THEN Absent ELSE Field(rows[i].tsh)]]]
    /\ tsh_out = Pending

TshNext == GetTop5Tsh

\* ------------------------------------------------------------------------
\* Schedule Resolver
\* ------------------------------------------------------------------------

\* Instants are seconds since the epoch, days are days since 1970-01-01.
\* The days tried are 2025-10-29 (day 20390) and 1970-01-01 (day 0, the day
\* of a timestamp 0).
DayStart(day) == day * 86400

\* The UTC offset pytz gives tz_name at the instants tried: late October 2025
\* (EET after the end of summer time, EDT), and the epoch (EET, EST)
UtcOffset(tz_name, ts) ==
    CASE tz_name = "Europe/Helsinki" -> 7200
      [] tz_name = "America/New_York" ->
            IF ts < 86400 THEN 0 - 18000 ELSE 0 - 14400
      [] OTHER -> 0

\* to_local_iso(utc_dt, tz_name): the instant rendered in the zone, as ISO
\* text: its calendar date, its time of day and its offset.
to_local_iso(ts, tz_name) ==
    LET off == UtcOffset(tz_name, ts)
    IN  [date |-> (ts + off) \div 86400,
         time |-> (ts + off) % 86400,
         utcoffset |-> off]

\* local_iso[:10], the calendar date of the ISO text
IsoDatePrefix(local_iso) == local_iso.date

\* d.isoformat()
DateIsoformat(d) == d

\* The local-day filter left out: every event passes
OnTargetDay_NoFilter(local_iso, d) == TRUE

\* local_day != target_day -> continue
OnTargetDay(local_iso, d) == IsoDatePrefix(local_iso) = DateIsoformat(d)

Game(home, away, ts, local_iso, source) ==
    [home_name |-> home, away_name |-> away, start_utc |-> ts,
     start_local |-> local_iso, source |-> source]

\* A missing name or attribute
NoText == ""

\* name.strip() on the names tried: the names that carry a leading or a
\* trailing blank, and the name made of a blank alone
StripName(name) ==
    CASE name = "Seattle Kraken " -> "Seattle Kraken"
      [] name = " Seattle Kraken" -> "Seattle Kraken"
      [] name = " " -> ""
      [] OTHER -> name

\* home_el.get_text(strip=True): the text of the element without the blanks
\* around it
GetTextStrip(text) == StripName(text)

\* The value an event holds under one of its timestamp keys:
\*   int    : a number
\*   digits : a string of digits
\*   iso    : ISO-8601 text with Z
\*   bad    : any other non-empty string
\*   none   : the key is missing
\* Truthy is the value's truth in "or": a number 0 and a missing key are falsy.
Truthy(v) ==
    CASE v.kind = "int" -> v.val # 0
      [] v.kind = "none" -> FALSE
      [] OTHER -> TRUE

\* ts = ev.get("startTimestamp") or ev.get("startTime") or ev.get("time"):
\* the first truthy value, and the last operand when none is truthy
EventTs(ev) ==
    IF Truthy(ev.startTimestamp) THEN ev.startTimestamp
    ELSE IF Truthy(ev.startTime) THEN ev.startTime
    ELSE ev.time

\* The instant the code reads from ts: utcfromtimestamp(int(ts)) of a number
\* (0 included) or of a string of digits, fromisoformat of ISO text; no
\* instant of another string or of None. The result is the set holding the
\* instant, empty when there is none.
EventInstant(ts) ==
    CASE ts.kind = "int" -> {ts.val}
      [] ts.kind = "digits" -> {ts.val}
      [] ts.kind = "iso" -> {ts.val}
      [] OTHER -> {}

\* One turn of the loop of try_json_feed: the games list after event ev
FeedEventStep(games, ev, d, tz_name) ==
    IF ev.home = NoText \/ ev.away = NoText THEN games
    ELSE IF EventInstant(EventTs(ev)) = {} THEN games
    ELSE LET ts == CHOOSE t \in EventInstant(EventTs(ev)) : TRUE
             local_iso == to_local_iso(ts, tz_name)
         IN  IF ~OnTargetDay(local_iso, d) THEN games
             ELSE Append(games,
                         Game(ev.home, ev.away, ts, local_iso, "flashscore-json"))

RECURSIVE FeedLoop(_, _, _, _)
FeedLoop(games, events, d, tz_name) ==
    IF events = <<>> THEN games
    ELSE FeedLoop(FeedEventStep(games, Head(events), d, tz_name),
                  Tail(events), d, tz_name)

\* try_json_feed(d, tz_name) on what the feed answered:
\*   fetch_failed : _get raised after its retries
\*   not_json     : the text holds no JSON document, json.loads raises
\*   events       : the event list found in the document (empty when none of
\*                  the known keys holds a list); an event that is not an
\*                  object makes ev.get raise
try_json_feed(feed, d, tz_name) ==
    IF feed.kind \in {"fetch_failed", "not_json"} THEN Raised
    ELSE IF \E i \in 1..Len(feed.events) : ~feed.events[i].is_dict THEN Raised
    ELSE Returned(FeedLoop(<<>>, feed.events, d, tz_name))

\* The start-time attribute of a page row: a string of digits, or none/other
RowInstant(ts_attr) ==
    IF ts_attr.kind = "digits" THEN {ts_attr.val} ELSE {}

\* One turn of the loop of fallback_html_scrape
PageRowStep(games, row, d, tz_name) ==
    LET home == GetTextStrip(row.home)
        away == GetTextStrip(row.away)
    IN  IF home = NoText \/ away = NoText THEN games
        ELSE IF RowInstant(row.ts) = {} THEN games
        ELSE LET ts == CHOOSE t \in RowInstant(row.ts) : TRUE
                 local_iso == to_local_iso(ts, tz_name)
             IN  IF ~OnTargetDay(local_iso, d) THEN games
                 ELSE Append(games,
                             Game(home, away, ts, local_iso, "flashscore-html"))

RECURSIVE PageLoop(_, _, _, _)
PageLoop(games, rows, d, tz_name) ==
    IF rows = <<>> THEN games
    ELSE PageLoop(PageRowStep(games, Head(rows), d, tz_name),
                  Tail(rows), d, tz_name)

\* fallback_html_scrape(d, tz_name) on what the page answered
fallback_html_scrape(page, d, tz_name) ==
    IF page.kind = "fetch_failed" THEN Raised
    ELSE Returned(PageLoop(<<>>, page.rows, d, tz_name))

\* Tier A never short-circuits: Tier B is consulted whatever Tier A found
TierAReturns_Never(a) == FALSE

\* "if games: return games" inside the first try block
TierAReturns(a) == a.state = "returned" /\ a.value # <<>>

\* get_schedule(d, tz_name) as a function of what the two sources answer
get_schedule(feed, page, d, tz_name) ==
    LET a == try_json_feed(feed, d, tz_name)
        b == fallback_html_scrape(page, d, tz_name)
    IN  IF TierAReturns(a) THEN a.value
        ELSE IF b.state = "returned" THEN b.value
        ELSE <<>>

NotFetched == [kind |-> "not_fetched"]

\* Bounds on the events of a feed and on the rows of a page
MaxEvents == 2

MaxPageRows == 2

RequestedDays == {0, 20390}

TimeZones == {"Europe/Helsinki", "America/New_York"}

\* Instants around the requested days: late evening UTC of the day before,
\* noon, late evening, and the small hours of the day after
Instants ==
    {DayStart(20390) - 3600, DayStart(20390) + 43200,
     DayStart(20390) + 82800, DayStart(20391) + 7200}

NoTs == [kind |-> "none", val |-> 0]

IntTs(n) == [kind |-> "int", val |-> n]

FeedEvent(is_dict, home, away, startTimestamp, startTime, time) ==
    [is_dict |-> is_dict, home |-> home, away |-> away,
     startTimestamp |-> startTimestamp, startTime |-> startTime,
     time |-> time]

\* The events tried: numbers under startTimestamp; a string of digits under
\* startTime; ISO text under time; a bad string; no timestamp key; a number
\* 0 under startTimestamp alone, under time alone, and under startTimestamp
\* before a number under time; an event without home name; a list entry
\* that is no dict
FeedEvents ==
    {FeedEvent(TRUE, "Utah HC", "Seattle Kraken", IntTs(t), NoTs, NoTs) :
        t \in Instants}
    \cup
    {FeedEvent(TRUE, "St. Louis Blues", "Vegas Golden Knights", NoTs,
               [kind |-> "digits", val |-> DayStart(20390) + 43200], NoTs),
     FeedEvent(TRUE, "St. Louis Blues", "Vegas Golden Knights", NoTs, NoTs,
               [kind |-> "iso", val |-> DayStart(20390) + 82800]),
     FeedEvent(TRUE, "St. Louis Blues", "Vegas Golden Knights",
               [kind |-> "bad", val |-> 0], NoTs, NoTs),
     FeedEvent(TRUE, "St. Louis Blues", "Vegas Golden Knights",
               NoTs, NoTs, NoTs),
     FeedEvent(TRUE, "St. Louis Blues", "Vegas Golden Knights",
               IntTs(0), NoTs, NoTs),
     FeedEvent(TRUE, "St. Louis Blues", "Vegas Golden Knights",
               NoTs, NoTs, IntTs(0)),
     FeedEvent(TRUE, "St. Louis Blues", "Vegas Golden Knights",
               IntTs(0), NoTs, IntTs(DayStart(20390) + 43200)),
     FeedEvent(TRUE, NoText, "Seattle Kraken",
               IntTs(DayStart(20390) + 43200), NoTs, NoTs),
     FeedEvent(FALSE, NoText, NoText, NoTs, NoTs, NoTs)}

Feeds ==
    {[kind |-> "fetch_failed"], [kind |-> "not_json"]}
    \cup {[kind |-> "events", events |-> es] :
            es \in UNION {[1..k -> FeedEvents] : k \in 0..MaxEvents}}

PageRows ==
    [home : {"Utah HC"}, away : {"Seattle Kraken"},
     ts : [kind : {"digits"},
           val : {DayStart(20390) - 3600, DayStart(20390) + 82800}]]
    \cup
    {[home |-> "St. Louis Blues", away |-> "Vegas Golden Knights",
      ts |-> [kind |-> "missing", val |-> 0]],
     [home |-> "St. Louis Blues", away |-> NoText,
      ts |-> [kind |-> "digits", val |-> DayStart(20390) + 43200]],
     [home |-> " Seattle Kraken", away |-> "Seattle Kraken ",
      ts |-> [kind |-> "digits", val |-> DayStart(20390) + 43200]],
     [home |-> "Utah HC", away |-> " ",
      ts |-> [kind |-> "digits", val |-> DayStart(20390) + 43200]]}

Pages ==
    {[kind |-> "fetch_failed"]}
    \cup {[kind |-> "rows", rows |-> rs] :
            rs \in UNION {[1..k -> PageRows] : k \in 0..MaxPageRows}}

\* What the official season-schedule endpoint holds for the requested day:
\* unreachable, no game, or one game (already keyed to the date).
OfficialSchedules(d, tz_name) ==
    {[ok |-> FALSE, games |-> <<>>],
     [ok |-> TRUE, games |-> <<>>],
     [ok |-> TRUE, games |->
        <<Game("Utah Hockey Club", "Seattle Kraken", DayStart(d) + 43200,
               to_local_iso(DayStart(d) + 43200, tz_name), "official-schedule")>>]}

\* get_schedule, first try block: Tier A
GetScheduleTierA ==
    /\ gs_pc = "tierA"
    /\ \E feed \in Feeds :
        LET a == try_json_feed(feed, gs_day, gs_tz)
        IN  /\ gs_feed' = feed
            /\ gs_fetched' = Append(gs_fetched, "flashscore-json")
            /\ IF TierAReturns(a)
               THEN /\ gs_result' = Returned(a.value)
                    /\ gs_pc' = "done"
               ELSE /\ gs_result' = gs_result
                    /\ gs_pc' = "tierB"
    /\ UNCHANGED <<gs_day, gs_tz, gs_page, gs_official>>
    /\ UNCHANGED <<fetchVars, mmssVars, tshVars, targetVars, pp1Vars>>

\* get_schedule, second try block: Tier B
GetScheduleTierB ==
    /\ gs_pc = "tierB"
    /\ \E page \in Pages :
        LET b == fallback_html_scrape(page, gs_day, gs_tz)
        IN  /\ gs_page' = page
            /\ gs_fetched' = Append(gs_fetched, "flashscore-html")
            /\ gs_result' = IF b.state = "returned"
                            THEN Returned(b.value) ELSE Returned(<<>>)
            /\ gs_pc' = "done"
    /\ UNCHANGED <<gs_day, gs_tz, gs_feed, gs_official>>
    /\ UNCHANGED <<fetchVars, mmssVars, tshVars, targetVars, pp1Vars>>

SchedIdle ==
    /\ gs_pc = "idle"
    /\ gs_day = 0
    /\ gs_tz = "UTC"
    /\ gs_feed = NotFetched
    /\ gs_page = NotFetched
    /\ gs_official = [ok |-> FALSE, games |-> <<>>]
    /\ gs_fetched = <<>>
    /\ gs_result = Returned(<<>>)

SchedStart ==
    /\ gs_pc = "tierA"
    /\ gs_day \in RequestedDays
    /\ gs_tz \in TimeZones
    /\ gs_feed = NotFetched
    /\ gs_page = NotFetched
    /\ gs_official \in OfficialSchedules(gs_day, gs_tz)
    /\ gs_fetched = <<>>
    /\ gs_result = Pending

SchedNext ==
    \/ GetScheduleTierA
    \/ GetScheduleTierB

\* ------------------------------------------------------------------------
\* Team Identity Reconciler
\* ------------------------------------------------------------------------

\* The static alias table, Flashscore name -> official name
TEAM_NAME_ALIASES ==
    ("Tampa Bay Lightning" :> "Tampa Bay Lightning")
    @@ ("New York Rangers" :> "New York Rangers")
    @@ ("NY Rangers" :> "New York Rangers")
    @@ ("New Jersey Devils" :> "New Jersey Devils")
    @@ ("NJ Devils" :> "New Jersey Devils")
    @@ ("Vegas Golden Knights" :> "Vegas Golden Knights")
    @@ ("Washington Capitals" :> "Washington Capitals")
    @@ ("St. Louis Blues" :> "St Louis Blues")
    @@ ("St Louis Blues" :> "St Louis Blues")
    @@ ("Los Angeles Kings" :> "Los Angeles Kings")
    @@ ("LA Kings" :> "Los Angeles Kings")
    @@ ("Arizona Coyotes" :> "Utah Hockey Club")
    @@ ("Utah HC" :> "Utah Hockey Club")
    @@ ("Montréal Canadiens" :> "Montreal Canadiens")
    @@ ("Montréal" :> "Montreal Canadiens")

\* str.casefold() on the names tried
Casefold(name) ==
    CASE name = "Utah Hockey Club" -> "utah hockey club"
      [] name = "Vegas Golden Knights" -> "vegas golden knights"
      [] name = "Seattle Kraken" -> "seattle kraken"
      [] name = "Utah HC" -> "utah hc"
      [] name = "Arizona Coyotes" -> "arizona coyotes"
      [] OTHER -> name

normalize_team_name(name) ==
    LET n == StripName(name)
    IN  IF n \in DOMAIN TEAM_NAME_ALIASES THEN TEAM_NAME_ALIASES[n] ELSE n

\* ------------------------------------------------------------------------
\* Python dict, as the sequence of its items in insertion order
\* ------------------------------------------------------------------------

DictHas(d, k) == \E i \in 1..Len(d) : d[i].key = k

DictGet(d, k) == d[CHOOSE i \in 1..Len(d) : d[i].key = k].val

\* d.setdefault(k, v): an existing item is kept
DictSetDefault(d, k, v) ==
    IF DictHas(d, k) THEN d ELSE Append(d, [key |-> k, val |-> v])

\* d[k] = v: an existing key keeps its place and takes the new value
DictSet(d, k, v) ==
    IF DictHas(d, k)
    THEN [i \in 1..Len(d) |->
            IF d[i].key = k THEN [key |-> k, val |-> v] ELSE d[i]]
    ELSE Append(d, [key |-> k, val |-> v])

\* ------------------------------------------------------------------------
\* Target Matcher
\* ------------------------------------------------------------------------

\* get_all_teams_meta: http_get_json raises when the fetch fails
get_all_teams_meta(resp) ==
    IF ~resp.ok THEN Raised ELSE Returned(resp.teams)

\* build_team_name_to_id: teams without id or name are left out
RECURSIVE NameToId(_, _)
NameToId(d, teams_meta) ==
    IF teams_meta = <<>> THEN d
    ELSE LET t == Head(teams_meta)
         IN  NameToId(IF t.id # Absent /\ t.name # Absent
                      THEN DictSet(d, ValueOf(t.name), ValueOf(t.id)) ELSE d,
                      Tail(teams_meta))

RECURSIVE IdToName(_, _)
IdToName(d, teams_meta) ==
    IF teams_meta = <<>> THEN d
    ELSE LET t == Head(teams_meta)
         IN  IdToName(IF t.id # Absent /\ t.name # Absent
                      THEN DictSet(d, ValueOf(t.id), ValueOf(t.name)) ELSE d,
                      Tail(teams_meta))

\* tsh_names: the official names of the top-5 teams known to id_to_name
TshNames(tsh_top5, id_to_name) ==
    {DictGet(id_to_name, tsh_top5[i].teamId) :
        i \in {j \in 1..Len(tsh_top5) : DictHas(id_to_name, tsh_top5[j].teamId)}}

OpponentMeta(plays_against, g) ==
    [plays_against |-> plays_against,
     game_time_local |-> g.start_local,
     source |-> g.source]

\* The opponents dict after game g
MatchGame_NoBothCheck(opponents, g, tsh_names) ==
    LET home == normalize_team_name(g.home_name)
        away == normalize_team_name(g.away_name)
    IN  IF home \in tsh_names
        THEN DictSet(opponents, away, OpponentMeta(home, g))
        ELSE IF away \in tsh_names
        THEN DictSet(opponents, home, OpponentMeta(away, g))
        ELSE opponents

MatchGame_KeepFirst(opponents, g, tsh_names) ==
    LET home == normalize_team_name(g.home_name)
        away == normalize_team_name(g.away_name)
        home_is_tsh == home \in tsh_names
        away_is_tsh == away \in tsh_names
    IN  IF home_is_tsh /\ ~away_is_tsh
        THEN DictSetDefault(opponents, away, OpponentMeta(home, g))
        ELSE IF away_is_tsh /\ ~home_is_tsh
        THEN DictSetDefault(opponents, home, OpponentMeta(away, g))
        ELSE opponents

\* One turn of the loop over the schedule (build_targets, step 3)
MatchGame(opponents, g, tsh_names) ==
    LET home == normalize_team_name(g.home_name)
        away == normalize_team_name(g.away_name)
        home_is_tsh == home \in tsh_names
        away_is_tsh == away \in tsh_names
    IN  IF home_is_tsh /\ ~away_is_tsh
        THEN DictSet(opponents, away, OpponentMeta(home, g))
        ELSE IF away_is_tsh /\ ~home_is_tsh
        THEN DictSet(opponents, home, OpponentMeta(away, g))
        ELSE opponents

RECURSIVE MatchLoop(_, _, _)
MatchLoop(opponents, schedule, tsh_names) ==
    IF schedule = <<>> THEN opponents
    ELSE MatchLoop(MatchGame(opponents, Head(schedule), tsh_names),
                   Tail(schedule), tsh_names)

\* The team id of an official name: the exact lookup, then the first key of
\* name_to_id with the same casefold; the empty set when there is none.
ResolveTeamId(name_to_id, opponent_official_name) ==
    IF DictHas(name_to_id, opponent_official_name)
    THEN {DictGet(name_to_id, opponent_official_name)}
    ELSE LET hits == {i \in 1..Len(name_to_id) :
                        Casefold(name_to_id[i].key)
                            = Casefold(opponent_official_name)}
         IN  IF hits = {} THEN {}
             ELSE {name_to_id[CHOOSE i \in hits : \A j \in hits : i <= j].val}

\* get_player_pp_toi_per_game(...) or "0:00"
ToiOrZero(toi) ==
    IF toi.is_none \/ toi.text = <<>>
    THEN [is_none |-> FALSE, text |-> <<"0", ":", "0", "0">>]
    ELSE toi

\* A roster entry is skipped when its person id or full name is missing or
\* falsy (if not pid or not name: continue)
RosterEntryKept(p) ==
    /\ p.id # Absent /\ ValueOf(p.id) # 0
    /\ p.name # Absent /\ ValueOf(p.name) # ""

\* A descending sort that puts an element before the earlier ones of equal key
RECURSIVE InsertDescTiesReversed(_, _)
InsertDescTiesReversed(sorted, x) ==
    IF sorted = <<>> THEN <<x>>
    ELSE IF Head(sorted).key > x.key
    THEN <<Head(sorted)>> \o InsertDescTiesReversed(Tail(sorted), x)
    ELSE <<x>> \o sorted

RECURSIVE SortDescTiesReversedFrom(_, _)
SortDescTiesReversedFrom(sorted, rest) ==
    IF rest = <<>> THEN sorted
    ELSE SortDescTiesReversedFrom(InsertDescTiesReversed(sorted, Head(rest)),
                                  Tail(rest))

\* compute_pp1_candidates with that sort in place of list.sort
compute_pp1_candidates_TiesReversed(roster) ==
    IF ~roster.ok THEN Raised
    ELSE LET kept == SelectSeq(roster.players, RosterEntryKept)
         IN  IF \E i \in 1..Len(kept) :
                    \/ ~kept[i].stat_ok
                    \/ mmss_to_seconds(ToiOrZero(kept[i].toi)).state = "raised"
             THEN Raised
             ELSE LET keyed == [i \in 1..Len(kept) |->
                        LET mmss == ToiOrZero(kept[i].toi)
                            secs == mmss_to_seconds(mmss).value
                        IN  [key |-> secs,
                             item |-> <<ValueOf(kept[i].name), kept[i].pos,
                                        secs, mmss.text>>]]
                      sorted == SortDescTiesReversedFrom(<<>>, keyed)
                  IN  Returned(Take([i \in 1..Len(sorted) |-> sorted[i].item],
                                    TopN))

\* compute_pp1_candidates on what the roster and the per-player statistics
\* answer: raises when the roster fetch fails, when the statistics fetch of a
\* kept player fails, or when mmss_to_seconds raises; else the 5 players with
\* the largest seconds, descending, stable.
compute_pp1_candidates(roster) ==
    IF ~roster.ok THEN Raised
    ELSE LET kept == SelectSeq(roster.players, RosterEntryKept)
         IN  IF \E i \in 1..Len(kept) :
                    \/ ~kept[i].stat_ok
                    \/ mmss_to_seconds(ToiOrZero(kept[i].toi)).state = "raised"
             THEN Raised
             ELSE LET keyed == [i \in 1..Len(kept) |->
                        LET mmss == ToiOrZero(kept[i].toi)
                            secs == mmss_to_seconds(mmss).value
                        IN  [key |-> secs,
                             item |-> <<ValueOf(kept[i].name), kept[i].pos,
                                        secs, mmss.text>>]]
                  IN  Returned(Take(SortDesc(keyed), TopN))

\* pp1_str: one "Name (POS) - PP TOI/GP mm:ss" piece per candidate
FormatPP1(top5) ==
    [i \in 1..Len(top5) |-> <<top5[i][1], top5[i][2], top5[i][4]>>]

TargetRow(run_date, opponent_official_name, meta, top5) ==
    [date |-> DateIsoformat(run_date),
     opponent_team |-> opponent_official_name,
     plays_against |-> meta.plays_against,
     game_time_local |-> meta.game_time_local,
     pp1_players |-> FormatPP1(top5),
     source |-> meta.source]

\* Bound on the games of the day's schedule
MaxGames == 2

\* The names a source may give the teams of a game
RawNames ==
    {"Utah HC", "Arizona Coyotes", "Vegas Golden Knights",
     "vegas golden knights", "Seattle Kraken "}

RunDates == {20390}

\* The feed events (or page rows) of a day: game i starts at 17:00 UTC plus
\* i half hours
DayEvents(d, pairs) ==
    [i \in 1..Len(pairs) |->
        FeedEvent(TRUE, pairs[i][1], pairs[i][2],
                  IntTs(DayStart(d) + 61200 + 1800 * i), NoTs, NoTs)]

DayRows(d, pairs) ==
    [i \in 1..Len(pairs) |->
        [home |-> pairs[i][1], away |-> pairs[i][2],
         ts |-> [kind |-> "digits", val |-> DayStart(d) + 61200 + 1800 * i]]]

NamePairs == {p \in RawNames \X RawNames : p[1] # p[2]}

PairSeqs == UNION {[1..k -> NamePairs] : k \in 0..MaxGames}

\* The team-summary responses tried: the three teams of the games, each with
\* a high count or none, before five other teams with a middle count; a
\* response with a row that lacks teamId; a failed fetch.
TeamRow(id, name, hot) ==
    [teamId |-> Field(id), teamFullName |-> name,
     timesShorthanded |-> IF hot THEN Field(9) ELSE Absent]

OtherTeamRows ==
    [i \in 1..5 |->
        [teamId |-> Field(i), teamFullName |-> TeamLabel(i),
         timesShorthanded |-> Field(5)]]

RankingResponses ==
    {[ok |-> FALSE, rows |-> <<>>],
     [ok |-> TRUE,
      rows |-> <<[teamId |-> Absent, teamFullName |-> "Utah Hockey Club",
                  timesShorthanded |-> Field(9)]>>]}
    \cup
    {[ok |-> TRUE,
      rows |-> <<TeamRow(59, "Utah Hockey Club", 59 \in hot),
                 TeamRow(54, "Vegas Golden Knights", 54 \in hot),
                 TeamRow(55, "Seattle Kraken", 55 \in hot)>>
               \o OtherTeamRows] : hot \in SUBSET {59, 54, 55}}

\* The teams responses tried: all three teams; Seattle without its name; a
\* failed fetch.
TeamsResponses ==
    {[ok |-> FALSE, teams |-> <<>>]}
    \cup
    {[ok |-> TRUE,
      teams |-> <<[id |-> Field(59), name |-> Field("Utah Hockey Club")],
                  [id |-> Field(54), name |-> Field("Vegas Golden Knights")],
                  [id |-> Field(55), name |-> seattle]>>] :
        seattle \in {Field("Seattle Kraken"), Absent}}

Text(t) == [is_none |-> FALSE, text |-> t]

NoneText == [is_none |-> TRUE, text |-> <<>>]

Player(id, name, pos, stat_ok, toi) ==
    [id |-> id, name |-> name, pos |-> pos, stat_ok |-> stat_ok, toi |-> toi]

\* The roster answers tried: a failed roster fetch; a roster whose players all
\* have statistics; one with a failed statistics fetch; one with a malformed
\* ice-time text.
RosterResponses ==
    {[ok |-> FALSE, players |-> <<>>],
     [ok |-> TRUE,
      players |-> <<Player(Field(1), Field("P1"), "C", TRUE, Text(<<"0", ":", "4", "5">>)),
                    Player(Field(2), Field("P2"), "D", TRUE, Text(<<"1", ":", "3", "0">>)),
                    Player(Absent, Field("P3"), "L", FALSE, NoneText),
                    Player(Field(4), Field("P4"), "R", TRUE, NoneText)>>],
     [ok |-> TRUE,
      players |-> <<Player(Field(1), Field("P1"), "C", TRUE, Text(<<"0", ":", "4", "5">>)),
                    Player(Field(2), Field("P2"), "D", FALSE, NoneText)>>],
     [ok |-> TRUE,
      players |-> <<Player(Field(1), Field("P1"), "C", TRUE, Text(<<"1", ":", "x">>))>>]}

\* build_targets, step 1: schedule = get_schedule(run_date, tz_name)
BuildTargetsSchedule ==
    /\ bt_pc = "schedule"
    /\ \E pairs \in PairSeqs, tier \in {"A", "B"} :
        LET feed == IF tier = "A"
                    THEN [kind |-> "events", events |-> DayEvents(bt_day, pairs)]
                    ELSE [kind |-> "fetch_failed"]
            page == IF tier = "B"
                    THEN [kind |-> "rows", rows |-> DayRows(bt_day, pairs)]
                    ELSE [kind |-> "fetch_failed"]
        IN  bt_schedule' = get_schedule(feed, page, bt_day, "Europe/Helsinki")
    /\ bt_pc' = "top5"
    /\ UNCHANGED <<bt_day, bt_tsh_top5, bt_name_to_id, bt_id_to_name,
                   bt_opponents, bt_next, bt_rows, bt_result>>
    /\ UNCHANGED <<fetchVars, mmssVars, tshVars, schedVars, pp1Vars>>

\* build_targets, step 2: tsh_top5 = get_top5_tsh(season); an exception of
\* get_top5_tsh leaves build_targets
BuildTargetsTop5 ==
    /\ bt_pc = "top5"
    /\ \E resp \in RankingResponses :
        LET r == get_top5_tsh(resp)
        IN  IF r.state = "raised"
            THEN /\ bt_result' = Raised
                 /\ bt_pc' = "done"
                 /\ bt_tsh_top5' = bt_tsh_top5
            ELSE /\ bt_result' = bt_result
                 /\ bt_pc' = "teams"
                 /\ bt_tsh_top5' = r.value
    /\ UNCHANGED <<bt_day, bt_schedule, bt_name_to_id, bt_id_to_name,
                   bt_opponents, bt_next, bt_rows>>
    /\ UNCHANGED <<fetchVars, mmssVars, tshVars, schedVars, pp1Vars>>

\* build_targets, teams_meta, the two name maps, tsh_names and step 3, the
\* loop over the schedule; an exception of get_all_teams_meta leaves
\* build_targets
BuildTargetsMatch ==
    /\ bt_pc = "teams"
    /\ \E resp \in TeamsResponses :
        LET r == get_all_teams_meta(resp)
        IN  IF r.state = "raised"
            THEN /\ bt_result' = Raised
                 /\ bt_pc' = "done"
                 /\ UNCHANGED <<bt_name_to_id, bt_id_to_name, bt_opponents>>
            ELSE LET name_to_id == NameToId(<<>>, r.value)
                     id_to_name == IdToName(<<>>, r.value)
                     tsh_names == TshNames(bt_tsh_top5, id_to_name)
                 IN  /\ bt_result' = bt_result
                     /\ bt_pc' = "opponents"
                     /\ bt_name_to_id' = name_to_id
                     /\ bt_id_to_name' = id_to_name
                     /\ bt_opponents' = MatchLoop(<<>>, bt_schedule, tsh_names)
    /\ UNCHANGED <<bt_day, bt_schedule, bt_tsh_top5, bt_next, bt_rows>>
    /\ UNCHANGED <<fetchVars, mmssVars, tshVars, schedVars, pp1Vars>>

\* build_targets, step 4: one turn of the loop over opponents.items(); an
\* opponent without team id is skipped, an exception of
\* compute_pp1_candidates leaves build_targets
BuildTargetsOpponent ==
    /\ bt_pc = "opponents"
    /\ bt_next <= Len(bt_opponents)
    /\ LET opponent_name == bt_opponents[bt_next].key
           meta == bt_opponents[bt_next].val
           opponent_official_name == normalize_team_name(opponent_name)
           team_id == ResolveTeamId(bt_name_to_id, opponent_official_name)
       IN  IF team_id = {}
           THEN /\ bt_next' = bt_next + 1
                /\ UNCHANGED <<bt_rows, bt_result, bt_pc>>
           ELSE \E roster \in RosterResponses :
                LET top5 == compute_pp1_candidates(roster)
                IN  IF top5.state = "raised"
                    THEN /\ bt_result' = Raised
                         /\ bt_pc' = "done"
                         /\ UNCHANGED <<bt_rows, bt_next>>
                    ELSE /\ bt_rows' = Append(bt_rows,
                                TargetRow(bt_day, opponent_official_name,
                                          meta, top5.value))
                         /\ bt_next' = bt_next + 1
                         /\ UNCHANGED <<bt_result, bt_pc>>
    /\ UNCHANGED <<bt_day, bt_schedule, bt_tsh_top5, bt_name_to_id,
                   bt_id_to_name, bt_opponents>>
    /\ UNCHANGED <<fetchVars, mmssVars, tshVars, schedVars, pp1Vars>>

\* build_targets: return df, tsh_top5, schedule
BuildTargetsReturn ==
    /\ bt_pc = "opponents"
    /\ bt_next > Len(bt_opponents)
    /\ bt_result' = Returned(bt_rows)
    /\ bt_pc' = "done"
    /\ UNCHANGED <<bt_day, bt_schedule, bt_tsh_top5, bt_name_to_id,
                   bt_id_to_name, bt_opponents, bt_next, bt_rows>>
    /\ UNCHANGED <<fetchVars, mmssVars, tshVars, schedVars, pp1Vars>>

TargetsIdle ==
    /\ bt_pc = "idle"
    /\ bt_day = 0
    /\ bt_schedule = <<>>
    /\ bt_tsh_top5 = <<>>
    /\ bt_name_to_id = <<>>
    /\ bt_id_to_name = <<>>
    /\ bt_opponents = <<>>
    /\ bt_next = 1
    /\ bt_rows = <<>>
    /\ bt_result = Returned(<<>>)

TargetsStart ==
    /\ bt_pc = "schedule"
    /\ bt_day \in RunDates
    /\ bt_schedule = <<>>
    /\ bt_tsh_top5 = <<>>
    /\ bt_name_to_id = <<>>
    /\ bt_id_to_name = <<>>
    /\ bt_opponents = <<>>
    /\ bt_next = 1
    /\ bt_rows = <<>>
    /\ bt_result = Pending

TargetsNext ==
    \/ BuildTargetsSchedule
    \/ BuildTargetsTop5
    \/ BuildTargetsMatch
    \/ BuildTargetsOpponent
    \/ BuildTargetsReturn

\* ------------------------------------------------------------------------
\* Candidate selection: compute_pp1_candidates on its own
\* ------------------------------------------------------------------------

\* Bound on the players of the rosters enumerated by kind
MaxPlayers == 6

PlayerNames == <<"P1", "P2", "P3", "P4", "P5", "P6", "P7", "P8", "P9">>

\* The ice-time texts of the rosters tried
Toi_0_00 == Text(<<"0", ":", "0", "0">>)

Toi_0_50 == Text(<<"0", ":", "5", "0">>)

Toi_1_00 == Text(<<"1", ":", "0", "0">>)

Toi_1_30 == Text(<<"1", ":", "3", "0">>)

Toi_2_10 == Text(<<"2", ":", "1", "0">>)

Toi_3_45 == Text(<<"3", ":", "4", "5">>)

Toi_4_00 == Text(<<"4", ":", "0", "0">>)

\* A roster whose players all have an id, a name and statistics
RosterOf(tois) ==
    [ok |-> TRUE,
     players |-> [i \in 1..Len(tois) |->
        Player(Field(i), Field(PlayerNames[i]), "C", TRUE, tois[i])]]

\* The roster of 7 players with pp_toi 0:00, 1:30, 3:45, 2:10, 0:50, 4:00, 1:00
ExampleRoster ==
    RosterOf(<<Toi_0_00, Toi_1_30, Toi_3_45, Toi_2_10, Toi_0_50, Toi_4_00,
               Toi_1_00>>)

\* The kinds of roster entry tried: two ice times, a player without
\* statistics splits (None), and an entry without person id
PlayerOfKind(i, kind) ==
    CASE kind = "1:30" -> Player(Field(i), Field(PlayerNames[i]), "C", TRUE, Toi_1_30)
      [] kind = "0:50" -> Player(Field(i), Field(PlayerNames[i]), "D", TRUE, Toi_0_50)
      [] kind = "none" -> Player(Field(i), Field(PlayerNames[i]), "L", TRUE, NoneText)
      [] kind = "no_id" -> Player(Absent, Field(PlayerNames[i]), "R", FALSE, NoneText)

PlayerKinds == {"1:30", "0:50", "none", "no_id"}

\* The roster answers tried: every roster of up to MaxPlayers entries of these
\* kinds, the example roster, and rosters with an id 0, an empty name, an
\* empty ice-time text, a negative or a malformed ice-time text, a failed
\* statistics request, and a failed roster request
RosterOfKinds(kinds) ==
    [ok |-> TRUE,
     players |-> [i \in 1..Len(kinds) |-> PlayerOfKind(i, kinds[i])]]

SpecialRosters ==
         {ExampleRoster,
          RosterOf(<<Toi_1_00, Toi_1_00, Toi_4_00, Toi_1_00, Toi_1_00,
                     Toi_1_00, Toi_1_00>>),
          [ok |-> TRUE,
           players |-> <<Player(Field(0), Field("P1"), "C", FALSE, NoneText),
                         Player(Field(2), Field(""), "C", FALSE, NoneText),
                         Player(Field(3), Field("P3"), "C", TRUE, Text(<<>>)),
                         Player(Field(4), Field("P4"), "D", TRUE, Toi_0_50)>>],
          RosterOf(<<Toi_0_50, Text(<<"-", "1", ":", "0">>), Toi_0_00>>),
          RosterOf(<<Toi_0_50, Text(<<"1", ":", "x">>)>>),
          [ok |-> TRUE,
           players |-> <<Player(Field(1), Field("P1"), "C", TRUE, Toi_0_50),
                         Player(Field(2), Field("P2"), "D", FALSE, NoneText)>>],
          [ok |-> FALSE, players |-> <<>>]}

\* top5 = compute_pp1_candidates(team_id, season)
ComputePP1Candidates ==
    /\ pp_out.state = "pending"
    /\ pp_out' = compute_pp1_candidates(pp_roster)
    /\ UNCHANGED pp_roster
    /\ UNCHANGED <<fetchVars, mmssVars, tshVars, schedVars, targetVars>>

PP1Idle ==
    /\ pp_roster = [ok |-> FALSE, players |-> <<>>]
    /\ pp_out = Raised

PP1Start ==
    /\ \/ \E n \in 0..MaxPlayers :
            \E kinds \in [1..n -> PlayerKinds] :
                pp_roster = RosterOfKinds(kinds)
       \/ pp_roster \in SpecialRosters
    /\ pp_out = Pending

PP1Next == ComputePP1Candidates

\* ------------------------------------------------------------------------
\* Specifications
\* ------------------------------------------------------------------------

FetchInit == FetchStart /\ MmssIdle /\ TshIdle /\ SchedIdle /\ TargetsIdle
    /\ PP1Idle

TshInit == TshStart /\ FetchIdle /\ MmssIdle /\ SchedIdle /\ TargetsIdle
    /\ PP1Idle

SpecTsh == TshInit /\ [][TshNext]_vars

SchedInit == SchedStart /\ FetchIdle /\ MmssIdle /\ TshIdle /\ TargetsIdle
    /\ PP1Idle

SpecSchedule == SchedInit /\ [][SchedNext]_vars

TargetsInit == TargetsStart /\ FetchIdle /\ MmssIdle /\ TshIdle /\ SchedIdle
    /\ PP1Idle

SpecTargets == TargetsInit /\ [][TargetsNext]_vars

SpecFetch == FetchInit /\ [][FetchNext]_vars

MmssInit == MmssStart /\ FetchIdle /\ TshIdle /\ SchedIdle /\ TargetsIdle
    /\ PP1Idle

SpecMmss == MmssInit /\ [][MmssNext]_vars

PP1Init ==
    PP1Start /\ FetchIdle /\ MmssIdle /\ TshIdle /\ SchedIdle /\ TargetsIdle

SpecPP1 == PP1Init /\ [][PP1Next]_vars

\* ------------------------------------------------------------------------
\* Claims
\* ------------------------------------------------------------------------

\* C7: every Fetch Client call (_get and http_get_json) makes at most 3
\* attempts; an attempt is followed by another one only when it met a
\* transport failure or a non-success status; the first successful response
\* (an empty payload included) ends the call with a return; the failure is
\* raised to the caller only after a third failed attempt.
C7_RetryOnlyAfterFailedResponse ==
    fc_fn \in {"_get", "http_get_json"} =>
        /\ Len(fc_log) <= 3
        /\ \A i \in 1..(Len(fc_log) - 1) : fc_log[i] \in FailedResponses
        /\ (fc_log # <<>> /\ fc_log[Len(fc_log)] \notin FailedResponses)
               => fc_state = "returned"
        /\ fc_state = "raised" => Len(fc_log) = 3

\* The text is malformed or missing: None, empty, not exactly one colon, or a
\* minute or second part that is not a number.
MalformedMmss(in) ==
    \/ in.is_none
    \/ in.text = <<>>
    \/ Len(SplitColon(in.text)) # 2
    \/ \E i \in 1..2 : ~PyIntOk(SplitColon(in.text)[i])

NeverRaisesNonNegative(in, out) ==
    out.state # "pending" =>
        /\ out.state = "returned"
        /\ out.value >= 0
        /\ MalformedMmss(in) => out.value = 0

\* C8: both mmss_to_seconds parsers (the Target Matcher's and the Schedule
\* Resolver's) return a non-negative integer for every input and never raise;
\* a malformed or missing input yields exactly 0.
C8_MmssNeverRaisesNonNegative ==
    /\ NeverRaisesNonNegative(mm_in, mm_matcher)
    /\ NeverRaisesNonNegative(mm_in, mm_resolver)

\* The exposure count of response row i, 0 when the row has none
CountOfRow(i) ==
    IF tsh_resp.rows[i].timesShorthanded = Absent THEN 0
    ELSE ValueOf(tsh_resp.rows[i].timesShorthanded)

\* The place of response row i in the descending order, ties in response order
RankOfRow(i) ==
    1 + Cardinality({j \in 1..Len(tsh_resp.rows) :
            \/ CountOfRow(j) > CountOfRow(i)
            \/ CountOfRow(j) = CountOfRow(i) /\ j < i})

\* C10: for a response of k team rows get_top5_tsh returns, without an
\* error, exactly min(5, k) records: the rows with the largest
\* timesShorthanded, descending, ties in response order; a row with an absent
\* extracted field never causes an error, an absent count counts as zero.
C10_Top5DescendingStableNoError ==
    (tsh_out.state # "pending" /\ tsh_resp.ok) =>
        /\ tsh_out.state = "returned"
        /\ Len(tsh_out.value) = MinOf(5, Len(tsh_resp.rows))
        /\ \A i \in 1..Len(tsh_resp.rows) :
              RankOfRow(i) <= 5 =>
                /\ tsh_out.value[RankOfRow(i)].teamFullName
                        = tsh_resp.rows[i].teamFullName
                /\ tsh_out.value[RankOfRow(i)].timesShorthanded = CountOfRow(i)

\* A tier produced nothing: it raised, or it returned zero games
ProducedNothing(r) == r.state = "raised" \/ Len(r.value) = 0

TierAFetched == gs_feed.kind # "not_fetched"

TierBFetched == gs_page.kind # "not_fetched"

TierAOutcome == try_json_feed(gs_feed, gs_day, gs_tz)

TierBOutcome == fallback_html_scrape(gs_page, gs_day, gs_tz)

TierCProvides == IF gs_official.ok THEN gs_official.games ELSE <<>>

IsPrefixOf(s, t) == Len(s) <= Len(t) /\ s = SubSeq(t, 1, Len(s))

\* C2: when Tier A and Tier B each raised or returned zero games, get_schedule
\* has queried the official-schedule tier and returns the games that tier
\* provides, without raising.
C2_FallsThroughToOfficialTier ==
    (/\ gs_pc = "done"
     /\ TierAFetched /\ ProducedNothing(TierAOutcome)
     /\ TierBFetched /\ ProducedNothing(TierBOutcome))
    => /\ gs_fetched =
            <<"flashscore-json", "flashscore-html", "official-schedule">>
       /\ gs_result.state = "returned"
       /\ gs_result.value = TierCProvides

\* C3: the tiers are consulted in the order A, B, C; when Tier A returned at
\* least one game get_schedule returns that list unchanged and no later tier
\* is fetched; Tier B is fetched only after Tier A raised or returned none.
C3_TiersInOrderStopAtFirstYield ==
    /\ IsPrefixOf(gs_fetched,
                  <<"flashscore-json", "flashscore-html", "official-schedule">>)
    /\ (TierAFetched /\ ~ProducedNothing(TierAOutcome))
        => /\ gs_pc = "done"
           /\ gs_fetched = <<"flashscore-json">>
           /\ gs_result.state = "returned"
           /\ gs_result.value = TierAOutcome.value
    /\ TierBFetched => (TierAFetched /\ ProducedNothing(TierAOutcome))

\* Tier A found a game of the requested day and get_schedule returned it
C3_Witness ==
    /\ gs_pc = "done"
    /\ gs_fetched = <<"flashscore-json">>
    /\ gs_result.state = "returned"
    /\ Len(gs_result.value) = 2

\* C4: get_schedule never raises, and it returns the empty sequence only when
\* every tier of the chain (A, B and the official-schedule tier C) has failed
\* or returned zero games.
C4_NeverRaisesEmptyOnlyIfAllTiersEmpty ==
    /\ gs_result.state # "raised"
    /\ (gs_pc = "done" /\ Len(gs_result.value) = 0)
        => /\ TierAFetched /\ ProducedNothing(TierAOutcome)
           /\ TierBFetched /\ ProducedNothing(TierBOutcome)
           /\ Len(TierCProvides) = 0

\* C5: every game get_schedule returns from Tier A or Tier B has a
\* start_local, derived from its start_utc, whose calendar date is the
\* requested day.
C5_ReturnedGamesOnRequestedDay ==
    gs_result.state = "returned" =>
        \A i \in 1..Len(gs_result.value) :
            LET g == gs_result.value[i]
            IN  g.source \in {"flashscore-json", "flashscore-html"} =>
                    /\ g.start_local.date = gs_day
                    /\ (g.start_utc + g.start_local.utcoffset) \div 86400 = gs_day

\* The feed held two timed events, one of them on another local day, and
\* get_schedule returned only the one of the requested day
C5_Witness ==
    /\ gs_pc = "done"
    /\ gs_fetched = <<"flashscore-json">>
    /\ gs_feed.kind = "events"
    /\ Len(gs_feed.events) = 2
    /\ \A i \in 1..2 : gs_feed.events[i].startTimestamp.kind = "int"
                       /\ gs_feed.events[i].startTimestamp.val # 0
                       /\ gs_feed.events[i].home # NoText
    /\ \E i \in 1..2 :
         LET t == gs_feed.events[i].startTimestamp.val
         IN  (t + UtcOffset(gs_tz, t)) \div 86400 # gs_day
    /\ gs_result.state = "returned"
    /\ Len(gs_result.value) = 1

\* The top-N canonical name set of the run
FlaggedNames == TshNames(bt_tsh_top5, bt_id_to_name)

HomeOf(g) == normalize_team_name(g.home_name)

AwayOf(g) == normalize_team_name(g.away_name)

ExactlyOneFlagged(g) ==
    (HomeOf(g) \in FlaggedNames) # (AwayOf(g) \in FlaggedNames)

FlaggedSide(g) == IF HomeOf(g) \in FlaggedNames THEN HomeOf(g) ELSE AwayOf(g)

OtherSide(g) == IF HomeOf(g) \in FlaggedNames THEN AwayOf(g) ELSE HomeOf(g)

\* The games of the schedule with exactly one top-N side and opponent o
GamesNaming(o) ==
    {i \in 1..Len(bt_schedule) :
        ExactlyOneFlagged(bt_schedule[i]) /\ OtherSide(bt_schedule[i]) = o}

FirstOf(S) == CHOOSE i \in S : \A j \in S : i <= j

LastOf(S) == CHOOSE i \in S : \A j \in S : j <= i

\* The opponents that several games of the schedule produce
RepeatedOpponents ==
    {o \in {OtherSide(bt_schedule[i]) : i \in 1..Len(bt_schedule)} :
        Cardinality(GamesNaming(o)) >= 2}

BuildTargetsReturned == bt_pc = "done" /\ bt_result.state = "returned"

\* The output rows naming opponent o
RowsFor(o) ==
    {i \in 1..Len(bt_result.value) : bt_result.value[i].opponent_team = o}

RowTakenFrom(row, g) ==
    /\ row.plays_against = FlaggedSide(g)
    /\ row.game_time_local = g.start_local
    /\ row.source = g.source

Resolves(o) == ResolveTeamId(bt_name_to_id, o) # {}

\* C1 as claimed: an opponent that several games produce has one row (when
\* its id resolves), and that row's plays_against, game_time_local and source
\* are those of the FIRST such game.
C1_FirstGameKept ==
    BuildTargetsReturned =>
        \A o \in RepeatedOpponents :
            /\ Cardinality(RowsFor(o)) <= 1
            /\ Resolves(o) => Cardinality(RowsFor(o)) = 1
            /\ \A i \in RowsFor(o) :
                 RowTakenFrom(bt_result.value[i],
                              bt_schedule[FirstOf(GamesNaming(o))])

\* C1 as amended: an opponent that several games produce has at most one row,
\* exactly one when its team id resolves and none otherwise, and that row's
\* plays_against, game_time_local and source are those of the LAST such game
\* in schedule order.
C1_LastGameKept ==
    BuildTargetsReturned =>
        \A o \in RepeatedOpponents :
            /\ Cardinality(RowsFor(o)) <= 1
            /\ Resolves(o) <=> Cardinality(RowsFor(o)) = 1
            /\ \A i \in RowsFor(o) :
                 RowTakenFrom(bt_result.value[i],
                              bt_schedule[LastOf(GamesNaming(o))])

\* Two games against two different top-N teams produced the same opponent,
\* and the run returned its one row
C1_Witness ==
    /\ BuildTargetsReturned
    /\ \E o \in RepeatedOpponents :
         /\ Cardinality(RowsFor(o)) = 1
         /\ FlaggedSide(bt_schedule[FirstOf(GamesNaming(o))])
                # FlaggedSide(bt_schedule[LastOf(GamesNaming(o))])

\* The output rows that name the two sides of game g, one as the opponent and
\* the other as plays_against
RowsOfGame(g) ==
    {i \in 1..Len(bt_result.value) :
        \/ /\ bt_result.value[i].opponent_team = HomeOf(g)
           /\ bt_result.value[i].plays_against = AwayOf(g)
        \/ /\ bt_result.value[i].opponent_team = AwayOf(g)
           /\ bt_result.value[i].plays_against = HomeOf(g)}

\* C6 as claimed: a game with both sides or no side in the top-N name set
\* produces no row; a game with exactly one side in it produces exactly one
\* row, the other side as opponent_team and the flagged side as plays_against.
C6_OneRowPerGameWithOneFlaggedSide ==
    BuildTargetsReturned =>
        \A k \in 1..Len(bt_schedule) :
            LET g == bt_schedule[k]
            IN  IF ExactlyOneFlagged(g)
                THEN Cardinality({i \in RowsFor(OtherSide(g)) :
                        bt_result.value[i].plays_against = FlaggedSide(g)}) = 1
                ELSE RowsOfGame(g) = {}

\* C6 as amended: a game with both sides or no side in the top-N name set
\* produces no row; for a game with exactly one side in it the output holds
\* at most one row with the other side as opponent_team, exactly one when the
\* opponent's team id resolves and none otherwise, and its plays_against is
\* the flagged side of the last game of the schedule that produces this
\* opponent.
C6_AtMostOneRowLastFlaggedSide ==
    BuildTargetsReturned =>
        \A k \in 1..Len(bt_schedule) :
            LET g == bt_schedule[k]
                o == OtherSide(g)
            IN  IF ExactlyOneFlagged(g)
                THEN /\ Cardinality(RowsFor(o)) <= 1
                     /\ Resolves(o) <=> Cardinality(RowsFor(o)) = 1
                     /\ \A i \in RowsFor(o) :
                          bt_result.value[i].plays_against
                            = FlaggedSide(bt_schedule[LastOf(GamesNaming(o))])
                ELSE RowsOfGame(g) = {}

\* The run returned for a schedule of a game between two top-N teams, which
\* has no row, and a game with one top-N side, which has its row
C6_Witness ==
    /\ BuildTargetsReturned
    /\ \E k \in 1..Len(bt_schedule) :
         /\ HomeOf(bt_schedule[k]) \in FlaggedNames
         /\ AwayOf(bt_schedule[k]) \in FlaggedNames
         /\ HomeOf(bt_schedule[k]) # AwayOf(bt_schedule[k])
    /\ \E k \in 1..Len(bt_schedule) :
         /\ ExactlyOneFlagged(bt_schedule[k])
         /\ Cardinality(RowsFor(OtherSide(bt_schedule[k]))) = 1

\* C9: build_targets has no batch-level hard failure: whatever the upstream
\* fetches do, the run completes and returns its (possibly empty or partial)
\* rows.
C9_NoBatchLevelFailure ==
    /\ bt_result.state # "raised"
    /\ bt_pc = "done" => bt_result.state = "returned"

\* The roster entries compute_pp1_candidates keeps, by place in the roster
KeptPlayers ==
    {i \in 1..Len(pp_roster.players) :
        /\ pp_roster.players[i].id \notin {Absent, Field(0)}
        /\ pp_roster.players[i].name \notin {Absent, Field("")}}

\* Power-play ice time of roster entry i in seconds
SecondsOfPlayer(i) ==
    mmss_to_seconds(ToiOrZero(pp_roster.players[i].toi)).value

\* The place of roster entry i in the descending order, ties in roster order
RankOfPlayer(i) ==
    1 + Cardinality({j \in KeptPlayers :
            \/ SecondsOfPlayer(j) > SecondsOfPlayer(i)
            \/ SecondsOfPlayer(j) = SecondsOfPlayer(i) /\ j < i})

\* The seconds of the returned candidates, in order
ReturnedSeconds == [k \in 1..Len(pp_out.value) |-> pp_out.value[k][3]]

\* What compute_pp1_candidates returned is the at most 5 kept roster players
\* with the highest seconds, descending, equal values in roster order
Top5DescendingStable ==
    /\ Len(pp_out.value) = MinOf(5, Cardinality(KeptPlayers))
    /\ \A i \in KeptPlayers :
          RankOfPlayer(i) <= 5 =>
            /\ pp_out.value[RankOfPlayer(i)][1]
                    = ValueOf(pp_roster.players[i].name)
            /\ pp_out.value[RankOfPlayer(i)][3] = SecondsOfPlayer(i)

\* C11 as claimed: what compute_pp1_candidates returns is the at most 5 roster
\* players with the highest power-play seconds, descending, equal values in
\* roster order; for the roster with pp_toi 0:00, 1:30, 3:45, 2:10, 0:50,
\* 4:00, 1:00 the seconds are 240, 225, 130, 110, 90.
C11_Top5WithExample110 ==
    pp_out.state = "returned" =>
        /\ Top5DescendingStable
        /\ pp_roster = ExampleRoster =>
                ReturnedSeconds = <<240, 225, 130, 110, 90>>

\* C11 as amended: what compute_pp1_candidates returns is the at most 5 roster
\* players with the highest power-play seconds, descending, equal values in
\* roster order; for the roster with pp_toi 0:00, 1:30, 3:45, 2:10, 0:50,
\* 4:00, 1:00 the seconds are 240, 225, 130, 90, 60.
C11_Top5WithExample60 ==
    pp_out.state = "returned" =>
        /\ Top5DescendingStable
        /\ pp_roster = ExampleRoster =>
                ReturnedSeconds = <<240, 225, 130, 90, 60>>

\* compute_pp1_candidates returned 5 of the example roster's 7 players
C11_Witness ==
    /\ pp_out.state = "returned"
    /\ pp_roster = ExampleRoster
    /\ Len(pp_out.value) = 5

\* The team ids of the top-N ranking of the run
TopNTeamIds == {bt_tsh_top5[i].teamId : i \in 1..Len(bt_tsh_top5)}

\* C12: every row build_targets returns has a plays_against in the top-N
\* canonical name set and an opponent_team whose team id, by the exact lookup
\* or the case-insensitive scan, is not the id of a top-N team: a top-N team
\* is never emitted as an opponent, whatever the letter case of its name in
\* the schedule.
C12_TopNTeamNeverAnOpponent ==
    BuildTargetsReturned =>
        \A k \in 1..Len(bt_result.value) :
            /\ bt_result.value[k].plays_against \in FlaggedNames
            /\ ResolveTeamId(bt_name_to_id, bt_result.value[k].opponent_team)
                    \cap TopNTeamIds = {}

=============================================================================
